---- MODULE Spec2Model ----
(***************************************************************************)
(* A model of ccache's source-input scanner and hasher:                    *)
(*   - Buffer (Buffer.hpp / Buffer.cpp): the sentinel-padded byte buffer   *)
(*   - check_for_temporal_macros (hashutil.cpp): the scalar (BMH) and the  *)
(*     vectorized (AVX2) search for __DATE__, __TIME__, __TIMESTAMP__      *)
(*   - hash_source_code_string (hashutil.cpp)                              *)
(*   - hash_command_output (hashutil.cpp)                                  *)
(* Bytes are their ASCII codes; a C string literal is the sequence of its  *)
(* codes.  A pointer into the buffer is its offset from buffer(), so -1 is *)
(* the head sentinel.                                                      *)
(***************************************************************************)
EXTENDS Integers, Sequences, FiniteSets, TLC

VARIABLES
  have_avx2,    \* build: HAVE_AVX2 is defined
  cpu_avx2,     \* run time: __builtin_cpu_supports("avx2")
  m_size,       \* Buffer::m_size
  m_capacity,   \* Buffer::m_capacity
  m_buffer,     \* Buffer::m_buffer, the whole allocation (head, bytes, tail)
  last_op,      \* the Buffer member function that ran last, its argument,
                \* and size() before it ran
  res_bmh,      \* outcome of the last check_for_temporal_macros_bmh call
  res_avx2,     \* outcome of the last check_for_temporal_macros_avx2 call
  res_check,    \* outcome of the last check_for_temporal_macros call
  sloppy,       \* config.sloppiness() & SLOPPY_TIME_MACROS is non-zero
  runs,         \* the calls of hash_source_code_string made so far
  cmd,          \* the call of hash_command_output in progress
  multi         \* the call of hash_multicommand_output in progress

vars == <<have_avx2, cpu_avx2, m_size, m_capacity, m_buffer, last_op,
          res_bmh, res_avx2, res_check, sloppy, runs, cmd, multi>>

bufVars  == <<have_avx2, cpu_avx2, m_size, m_capacity, m_buffer, last_op>>
scanVars == <<res_bmh, res_avx2, res_check>>
hashVars == <<sloppy, runs>>
cmdVars  == <<cmd, multi>>

-----------------------------------------------------------------------------
(* Bounds of the model *)

\* Largest capacity a Buffer is constructed with or resized to.
MaxCap == 3
\* Largest number of chunks a scanned buffer is put together from.
MaxChunks == 3
\* Largest number of chunks a hashed source buffer is put together from.
MaxHashChunks == 2
\* Largest number of bytes the command writes to its stdout and stderr.
MaxOut == 3
\* Number of bytes the pipe holds before a write to it blocks.
PipeCap == 2
\* Largest length of the command list given to hash_multicommand_output.
MaxCmdLen == 3

-----------------------------------------------------------------------------
(* Bytes *)

CH_NUL == 0
CH_NL == 10
CH_UNDERSCORE == 95
CH_E == 69

\* A byte of a fresh allocation that nothing has written yet: any value.
UninitBytes == {0, 42, 95}
\* Stands for the bytes of a fresh allocation that the same call overwrites
\* before it returns, and for bytes outside the allocation.
NoByte == 0 - 1

Max(a, b) == IF a >= b THEN a ELSE b
Min(a, b) == IF a <= b THEN a ELSE b

\* std::min(m_capacity, m_size)
std_min_first(a, b) == a
std_min(a, b) == IF b < a THEN b ELSE a

\* isalnum(c) in the "C" locale the program runs in. The model's bytes are
\* ASCII; the code passes a plain char, so a byte above 127 would reach
\* isalnum as a negative number.
isalnum_short_digits(c) ==
  \/ c \in 48..56
  \/ c \in 65..90
  \/ c \in 97..122
isalnum(c) ==
  \/ c \in 48..57
  \/ c \in 65..90
  \/ c \in 97..122

-----------------------------------------------------------------------------
(* Buffer *)

k_buffer_head_size == 1
k_buffer_tail_size_scalar == 1
k_buffer_tail_size == IF have_avx2 THEN 31 ELSE 1

\* Position in m_buffer (a sequence, from 1) of the byte buffer()[k].
Pos(k) == k + k_buffer_head_size + 1

\* buffer()[k]: m_buffer.get() + k_buffer_head_size, indexed by k.
buffer(mem, k) ==
  IF Pos(k) \in 1..Len(mem) THEN mem[Pos(k)] ELSE NoByte

\* memset(buffer() + at, c, n) on the allocation mem.
memset(mem, at, c, n) ==
  LET lo == Pos(at)
      hi == Min(Pos(at) + n - 1, Len(mem))
  IN SubSeq(mem, 1, lo - 1) \o [k \in 1..(hi - lo + 1) |-> c]
       \o SubSeq(mem, hi + 1, Len(mem))

\* memcpy(buffer() + at, src, Len(src)) on the allocation mem.
memcpy(mem, at, src) ==
  LET lo == Pos(at)
      hi == Min(Pos(at) + Len(src) - 1, Len(mem))
  IN SubSeq(mem, 1, lo - 1) \o SubSeq(src, 1, hi - lo + 1)
       \o SubSeq(mem, hi + 1, Len(mem))

\* x_realloc(ptr, n): a block of n bytes that keeps the old block's bytes up
\* to the smaller of the two sizes; the rest is what fill gives, and NoByte
\* where fill gives nothing.
x_realloc_zeroed(ptr, n, fill) == [k \in 1..n |-> CH_NUL]
x_realloc(ptr, n, fill) ==
  LET kept == Min(Len(ptr), n)
  IN SubSeq(ptr, 1, kept)
       \o [k \in 1..(n - kept) |->
             IF kept + k \in DOMAIN fill THEN fill[kept + k] ELSE NoByte]

\* The positions of a block grown from oldLen to n bytes that are still
\* unwritten when set_capacity (and the constructor) return: the new ones
\* beyond the tail that set_size(size) clears.
Unwritten(oldLen, n, size) ==
  (Max(oldLen, Pos(size) + k_buffer_tail_size - 1) + 1)..n

\* Buffer::set_size: the allocation after memset(buffer() + size, 0,
\* k_buffer_tail_size). The assert is the caller's obligation and is the
\* guard of the action SetSize.
set_size_one_byte(mem, size) == memset(mem, size, CH_NUL, 1)
set_size_from_zero(mem, size) == memset(mem, 0, CH_NUL, k_buffer_tail_size)
set_size(mem, size) == memset(mem, size, CH_NUL, k_buffer_tail_size)

\* Buffer::set_capacity: the new allocation and the new size.
set_capacity_mem(mem, size, capacity, fill) ==
  set_size(x_realloc(mem,
                     capacity + k_buffer_head_size + k_buffer_tail_size,
                     fill),
           std_min(capacity, size))

\* Buffer::Buffer(capacity): the allocation after construction. m_buffer
\* starts as nullptr and m_size as 0; m_buffer.get() is buffer() - 1.
ctor(capacity, fill) ==
  memset(set_capacity_mem(<<>>, 0, capacity, fill),
         0 - k_buffer_head_size, CH_NL, k_buffer_head_size)

Fills(oldLen, n, size) == [Unwritten(oldLen, n, size) -> UninitBytes]

\* No scan, no hashing and no command is part of the Buffer specification.
NoCall == [called |-> FALSE, result |-> 0, reads |-> {}, loads |-> {},
           calls |-> {}]
NoCmd == [pc |-> "none"]
NoMulti == [pc |-> "none"]

Idle ==
  /\ res_bmh = NoCall /\ res_avx2 = NoCall /\ res_check = NoCall
  /\ sloppy = FALSE /\ runs = <<>> /\ cmd = NoCmd /\ multi = NoMulti

InitBuf ==
  /\ have_avx2 \in BOOLEAN
  /\ cpu_avx2 = have_avx2
  /\ \E c \in 0..MaxCap :
       /\ m_capacity = c
       /\ m_size = 0
       /\ last_op = [op |-> "Buffer", arg |-> c, old_size |-> 0]
       /\ \E fill \in Fills(0, c + k_buffer_head_size + k_buffer_tail_size, 0) :
            m_buffer = ctor(c, fill)
  /\ Idle

\* Buffer::set_size(size), called as its assert allows.
SetSize(size) ==
  /\ size <= m_capacity
  /\ m_size' = size
  /\ m_buffer' = set_size(m_buffer, size)
  /\ last_op' = [op |-> "set_size", arg |-> size, old_size |-> m_size]
  /\ UNCHANGED <<have_avx2, cpu_avx2, m_capacity, scanVars, hashVars, cmdVars>>

\* Buffer::set_capacity(capacity)
SetCapacity(capacity) ==
  /\ m_capacity' = capacity
  /\ m_size' = std_min(capacity, m_size)
  /\ \E fill \in Fills(Len(m_buffer),
                       capacity + k_buffer_head_size + k_buffer_tail_size,
                       std_min(capacity, m_size)) :
       m_buffer' = set_capacity_mem(m_buffer, m_size, capacity, fill)
  /\ last_op' = [op |-> "set_capacity", arg |-> capacity,
                  old_size |-> m_size]
  /\ UNCHANGED <<have_avx2, cpu_avx2, scanVars, hashVars, cmdVars>>

\* Buffer::reset()
Reset ==
  /\ m_capacity' = 0
  /\ m_size' = std_min(0, m_size)
  /\ m_buffer' = set_capacity_mem(m_buffer, m_size, 0, <<>>)
  /\ last_op' = [op |-> "reset", arg |-> 0, old_size |-> m_size]
  /\ UNCHANGED <<have_avx2, cpu_avx2, scanVars, hashVars, cmdVars>>

NextBuf ==
  \/ \E s \in 0..MaxCap : SetSize(s)
  \/ \E c \in 0..MaxCap : SetCapacity(c)
  \/ Reset

SpecBuf == InitBuf /\ [][NextBuf]_vars

\* The bytes a caller writes through buffer().
WriteBytes == {0, 42, 65}

\* The caller writes the byte c at index i of buffer(), 0 <= i < capacity().
Write(i, c) ==
  /\ i < m_capacity
  /\ m_buffer' = memset(m_buffer, i, c, 1)
  /\ last_op' = [op |-> "write", arg |-> i, old_size |-> m_size]
  /\ UNCHANGED <<have_avx2, cpu_avx2, m_size, m_capacity, scanVars, hashVars,
                 cmdVars>>

\* The Buffer operations and the caller's writes.
NextBufWrite ==
  \/ \E s \in 0..MaxCap : SetSize(s)
  \/ \E c \in 0..MaxCap : SetCapacity(c)
  \/ Reset
  \/ \E i \in 0..(MaxCap - 1) : \E c \in WriteBytes : Write(i, c)

SpecBufWrite == InitBuf /\ [][NextBufWrite]_vars

-----------------------------------------------------------------------------
(* The macro scanner *)

HASH_SOURCE_CODE_OK == 0
HASH_SOURCE_CODE_ERROR == 1
HASH_SOURCE_CODE_FOUND_DATE == 2
HASH_SOURCE_CODE_FOUND_TIME == 4
HASH_SOURCE_CODE_FOUND_TIMESTAMP == 8

FoundBits == {HASH_SOURCE_CODE_FOUND_DATE, HASH_SOURCE_CODE_FOUND_TIME,
              HASH_SOURCE_CODE_FOUND_TIMESTAMP}

\* a & b is non-zero, for a single bit b
HasBit(a, b) == (a \div b) % 2 = 1

\* a | b on the result masks
BitOr(a, b) ==
  LET Bit(f) == IF HasBit(a, f) \/ HasBit(b, f) THEN f ELSE 0
  IN Bit(1) + Bit(2) + Bit(4) + Bit(8)

\* size_t arithmetic wraps around. 2^64 is more than TLC's integers hold;
\* the code compares a length with 7 and 12 and adds 6 to it and does nothing
\* else with it, so a modulus of 2^30 behaves as 2^64 does.
SizeMod == 2^30
SizeAdd(a, b) == (a + b) % SizeMod
SizeSub(a, b) == (a - b) % SizeMod

Str_DATE == <<95, 68, 65, 84, 69, 95, 95>>                        \* "_DATE__"
Str_TIME == <<95, 84, 73, 77, 69, 95, 95>>                        \* "_TIME__"
Str_TIMESTAMP == <<95, 84, 73, 77, 69, 83, 84, 65, 77, 80, 95, 95>> \* "_TIMESTAMP__"

\* The three 8-byte windows the scalar search looks for: "__DATE__",
\* "__TIME__" and the first 8 bytes of "__TIMESTAMP__".
Needles == { <<95>> \o Str_DATE, <<95>> \o Str_TIME,
             <<95>> \o SubSeq(Str_TIMESTAMP, 1, 7) }

\* macro_skip[c]: the Boyer-Moore-Horspool advance for byte c at the end of
\* an 8-byte window: the distance from the last place of c among the first 7
\* bytes of a needle to the needle's end, the least over the needles, and 8
\* for a byte in none of them.
macro_skip ==
  [c \in 0..255 |->
     LET d == { 8 - k : k \in { j \in 1..7 : \E n \in Needles : n[j] = c } }
     IN IF d = {} THEN 8 ELSE CHOOSE x \in d : \A y \in d : x <= y]

\* start[k], for start = buffer.char_buffer()
start(k) == buffer(m_buffer, k)

\* memcmp(start + s, lit, n) == 0
memcmp_eq(s, lit, n) == \A k \in 1..n : start(s + k - 1) = lit[k]

\* The end of check_for_temporal_macros_helper: the check of the bytes
\* before and after a macro of macro_len bytes found at str = start + s.
boundary_after_only(s, macro_len, found, reads) ==
  LET after == start(s + macro_len)
  IN [found |-> IF after # CH_UNDERSCORE /\ ~isalnum(after) THEN found ELSE 0,
      reads |-> reads \cup {s + macro_len}]
boundary(s, macro_len, found, reads) ==
  LET before == start(s - 2)
      beforeOk == before # CH_UNDERSCORE /\ ~isalnum(before)
      after == start(s + macro_len)
  IN [found |-> IF beforeOk /\ after # CH_UNDERSCORE /\ ~isalnum(after)
                THEN found ELSE 0,
      reads |-> reads \cup {s - 2}
                      \cup (IF beforeOk THEN {s + macro_len} ELSE {})]

\* check_for_temporal_macros_helper(start + s, len): what it returns and the
\* offsets from start it reads.
check_for_temporal_macros_helper(s, len) ==
  IF len < 7 THEN [found |-> 0, reads |-> {}]
  ELSE IF memcmp_eq(s, Str_DATE, 7)
    THEN boundary(s, 7, HASH_SOURCE_CODE_FOUND_DATE, s..(s + 6))
  ELSE IF memcmp_eq(s, Str_TIME, 7)
    THEN boundary(s, 7, HASH_SOURCE_CODE_FOUND_TIME, s..(s + 6))
  ELSE IF len >= 12 /\ memcmp_eq(s, Str_TIMESTAMP, 12)
    THEN boundary(s, 12, HASH_SOURCE_CODE_FOUND_TIMESTAMP, s..(s + 11))
  ELSE [found |-> 0,
        reads |-> IF len >= 12 THEN s..(s + 11) ELSE s..(s + 6)]

\* The len argument of the helper call in check_for_temporal_macros_bmh:
\* len + 6, in size_t.
bmh_helper_len_unadjusted(len) == len
bmh_helper_len(len) == SizeAdd(len, 6)

\* The loop of check_for_temporal_macros_bmh from cursor i on. calls are
\* the calls of the helper made: str as its offset from start, and len.
RECURSIVE bmh_loop(_, _, _, _)
bmh_loop(i, result, reads, calls) ==
  IF i < m_size
  THEN LET cand == start(i - 2) = CH_E /\ start(i - 7) = CH_UNDERSCORE
           len == SizeSub(m_size, i)
           h == IF cand
                THEN check_for_temporal_macros_helper(i - 6,
                                                      bmh_helper_len(len))
                ELSE [found |-> 0, reads |-> {}]
           seen == {i, i - 2} \cup (IF start(i - 2) = CH_E THEN {i - 7} ELSE {})
           call == IF cand
                   THEN { [str |-> i - 6, len |-> bmh_helper_len(len)] }
                   ELSE {}
       IN bmh_loop(i + macro_skip[start(i)], BitOr(result, h.found),
                   reads \cup seen \cup h.reads, calls \cup call)
  ELSE [called |-> TRUE, result |-> result, reads |-> reads, loads |-> {},
        calls |-> calls]

bmh_from_8 == bmh_loop(8, 0, {}, {})
check_for_temporal_macros_bmh == bmh_loop(7, 0, {}, {})

\* The while loop of check_for_temporal_macros_avx2 over the set bits of
\* mask (the set of their numbers), lowest first, in the block at i.
RECURSIVE avx2_while(_, _, _, _, _)
avx2_while(mask, i, result, reads, calls) ==
  IF mask # {}
  THEN LET ctz == CHOOSE b \in mask : \A c \in mask : b <= c
           pos == ctz + 1
           len == SizeSub(m_size, i)
           h == check_for_temporal_macros_helper(i + pos, SizeSub(len, pos))
       IN avx2_while(mask \ {ctz}, i, BitOr(result, h.found),
                     reads \cup h.reads,
                     calls \cup { [str |-> i + pos,
                                   len |-> SizeSub(len, pos)] })
  ELSE [result |-> result, reads |-> reads, calls |-> calls]

\* The for loop of check_for_temporal_macros_avx2 from block i on. Bit b of
\* mask is set when byte b of the block loaded at i is '_' and byte b of the
\* block loaded at i + 5 is 'E'. loads are the offsets the two 32-byte
\* loads read, reads those the helper reads.
RECURSIVE avx2_loop(_, _, _, _, _)
avx2_loop(i, result, reads, loads, calls) ==
  IF i + 8 <= m_size
  THEN LET mask == { b \in 0..31 : /\ start(i + b) = CH_UNDERSCORE
                                   /\ start(i + 5 + b) = CH_E }
       IN CHOOSE r \in
            { avx2_loop(i + 32, w.result, w.reads,
                        loads \cup (i..(i + 31)) \cup ((i + 5)..(i + 36)),
                        w.calls) :
              w \in { avx2_while(mask, i, result, reads, calls) } } : TRUE
  ELSE [called |-> TRUE, result |-> result, reads |-> reads, loads |-> loads,
        calls |-> calls]

avx2_first_block_only ==
  IF 8 <= m_size
  THEN LET mask == { b \in 0..31 : /\ start(b) = CH_UNDERSCORE
                                   /\ start(5 + b) = CH_E }
           w == avx2_while(mask, 0, 0, {}, {})
       IN [called |-> TRUE, result |-> w.result, reads |-> w.reads,
           loads |-> (0..31) \cup (5..36), calls |-> w.calls]
  ELSE [called |-> TRUE, result |-> 0, reads |-> {}, loads |-> {},
        calls |-> {}]
check_for_temporal_macros_avx2 == avx2_loop(0, 0, {}, {}, {})

\* check_for_temporal_macros(buffer)
check_for_temporal_macros ==
  IF have_avx2 /\ cpu_avx2
  THEN check_for_temporal_macros_avx2
  ELSE check_for_temporal_macros_bmh

-----------------------------------------------------------------------------
(* Scanning: the buffers scanned and the three entry points *)

Macro_DATE == <<95>> \o Str_DATE
Macro_TIME == <<95>> \o Str_TIME
Macro_TIMESTAMP == <<95>> \o Str_TIMESTAMP

Spaces(n) == [k \in 1..n |-> 32]

\* The pieces the scanned buffers are put together from: the macros, the
\* identifier bytes '_' and 'E', and runs of 1, 3, 4 and 28 spaces, which
\* move a macro to every place of an 8-byte window and across the 32-byte
\* block boundary.
Chunks ==
  { Macro_DATE, Macro_TIME, Macro_TIMESTAMP,
    <<95>>, <<69>>, <<32>>, Spaces(3), Spaces(4), Spaces(28) }

\* Bytes at and next to the ends of the ranges of identifier bytes:
\* '_' 'a' 'z' 'A' 'Z' '0' '9', and NUL '\n' ' ' '/' ':' '@' '[' '`' '{'.
IdentEdge == {95, 97, 122, 65, 90, 48, 57}
NonIdentEdge == {0, 10, 32, 47, 58, 64, 91, 96, 123}

\* One macro between two such bytes.
Bordered ==
  { <<a>> \o m \o <<b>> :
      a \in IdentEdge \cup NonIdentEdge, b \in IdentEdge \cup NonIdentEdge,
      m \in {Macro_DATE, Macro_TIME, Macro_TIMESTAMP} }

RECURSIVE Inputs(_)
Inputs(n) ==
  IF n = 0 THEN { <<>> }
  ELSE LET prev == Inputs(n - 1)
       IN prev \cup { s \o c : s \in prev, c \in Chunks }

\* A Buffer as read_file leaves it: constructed with the content's length as
\* capacity, the content copied in, set_size(length).
FilledBuffer(content) ==
  LET constructed == { ctor(Len(content), <<>>) }
      filled == { memcpy(mem, 0, content) : mem \in constructed }
  IN CHOOSE mem \in { set_size(m, Len(content)) : m \in filled } : TRUE

InitScan ==
  /\ have_avx2 \in BOOLEAN
  /\ cpu_avx2 \in (IF have_avx2 THEN BOOLEAN ELSE {FALSE})
  /\ \E content \in Inputs(MaxChunks) \cup Bordered :
       /\ m_size = Len(content)
       /\ m_capacity = Len(content)
       /\ m_buffer = FilledBuffer(content)
       /\ last_op = [op |-> "set_size", arg |-> Len(content), old_size |-> 0]
  /\ res_bmh = NoCall /\ res_avx2 = NoCall /\ res_check = NoCall
  /\ sloppy = FALSE /\ runs = <<>> /\ cmd = NoCmd /\ multi = NoMulti

CallBmh ==
  /\ res_bmh' = check_for_temporal_macros_bmh
  /\ UNCHANGED <<bufVars, res_avx2, res_check, hashVars, cmdVars>>

\* The vectorized function exists in a HAVE_AVX2 build and runs on a CPU
\* with AVX2.
CallAvx2 ==
  /\ have_avx2 /\ cpu_avx2
  /\ res_avx2' = check_for_temporal_macros_avx2
  /\ UNCHANGED <<bufVars, res_bmh, res_check, hashVars, cmdVars>>

CallCheck ==
  /\ res_check' = check_for_temporal_macros
  /\ UNCHANGED <<bufVars, res_bmh, res_avx2, hashVars, cmdVars>>

NextScan == CallBmh \/ CallAvx2 \/ CallCheck

SpecScan == InitScan /\ [][NextScan]_vars

-----------------------------------------------------------------------------
(* The hash handle: the sequence of what has been absorbed into it *)

Item(op, data) == [op |-> op, data |-> data]

hash_string_buffer(hash, bytes) == Append(hash, Item("string_buffer", bytes))
hash_delimiter(hash, label) == Append(hash, Item("delimiter", label))
hash_int(hash, x) == Append(hash, Item("int", <<x>>))
hash_string(hash, str) == Append(hash, Item("string", str))

Str_date == <<100, 97, 116, 101>>                                \* "date"
Str_timestamp == <<116, 105, 109, 101, 115, 116, 97, 109, 112>>  \* "timestamp"
Str_time == <<116, 105, 109, 101>>                               \* "time"

-----------------------------------------------------------------------------
(* The C library's clock functions, for the time zone UTC *)

IsLeap(y) == (y % 4 = 0 /\ y % 100 # 0) \/ y % 400 = 0
DaysInYear(y) == IF IsLeap(y) THEN 366 ELSE 365
DaysInMonth(y, m) ==
  IF m = 1 THEN (IF IsLeap(y) THEN 29 ELSE 28)
  ELSE IF m \in {3, 5, 8, 10} THEN 30 ELSE 31

RECURSIVE YearOf(_, _)
YearOf(days, y) ==
  IF days >= DaysInYear(y) THEN YearOf(days - DaysInYear(y), y + 1)
  ELSE [year |-> y, yday |-> days]

RECURSIVE MonthOf(_, _, _)
MonthOf(yday, y, m) ==
  IF yday >= DaysInMonth(y, m) THEN MonthOf(yday - DaysInMonth(y, m), y, m + 1)
  ELSE [mon |-> m, mday |-> yday + 1]

\* localtime_r(&t, &tm) when it succeeds: the struct tm it fills in.
localtime_r(t) ==
  LET days == t \div 86400
      secs == t % 86400
      yr == YearOf(days, 1970)
      mo == MonthOf(yr.yday, yr.year, 0)
  IN [tm_year |-> yr.year - 1900, tm_mon |-> mo.mon, tm_mday |-> mo.mday,
      tm_hour |-> secs \div 3600, tm_min |-> (secs % 3600) \div 60,
      tm_sec |-> secs % 60, tm_wday |-> (4 + days) % 7]

DayNames ==
  << <<83, 117, 110>>, <<77, 111, 110>>, <<84, 117, 101>>, <<87, 101, 100>>,
     <<84, 104, 117>>, <<70, 114, 105>>, <<83, 97, 116>> >>
MonthNames ==
  << <<74, 97, 110>>, <<70, 101, 98>>, <<77, 97, 114>>, <<65, 112, 114>>,
     <<77, 97, 121>>, <<74, 117, 110>>, <<74, 117, 108>>, <<65, 117, 103>>,
     <<83, 101, 112>>, <<79, 99, 116>>, <<78, 111, 118>>, <<68, 101, 99>> >>

Digit(n) == 48 + n
Dec2(n) == <<Digit(n \div 10), Digit(n % 10)>>
Dec4(n) == <<Digit(n \div 1000), Digit((n \div 100) % 10),
             Digit((n \div 10) % 10), Digit(n % 10)>>

\* asctime_r(&tm, buf) / asctime(&tm) when it succeeds:
\* "Www Mmm dd hh:mm:ss yyyy\n", the day of the month padded with a space.
asctime(tm) ==
  DayNames[tm.tm_wday + 1] \o <<32>> \o MonthNames[tm.tm_mon + 1] \o <<32>>
    \o (IF tm.tm_mday < 10 THEN <<32, Digit(tm.tm_mday)>> ELSE Dec2(tm.tm_mday))
    \o <<32>> \o Dec2(tm.tm_hour) \o <<58>> \o Dec2(tm.tm_min) \o <<58>>
    \o Dec2(tm.tm_sec) \o <<32>> \o Dec4(1900 + tm.tm_year) \o <<10>>

-----------------------------------------------------------------------------
(* hash_source_code_string *)

\* The values time(nullptr) and stat.mtime() take: 1970-01-01 00:00:00 and
\* 2000-02-29 00:00:00.
Times == {0, 951782400}

\* What the environment does during one call: the wall-clock time, the
\* file's mtime, and which of the calls that can fail do not.
Envs ==
  [now : Times, mtime : Times, localtime_now_ok : BOOLEAN, stat_ok : BOOLEAN,
   localtime_mtime_ok : BOOLEAN, asctime_ok : BOOLEAN]

\* The live bytes, buffer.char_buffer()[0 .. buffer.size() - 1]
LiveBytes == SubSeq(m_buffer, Pos(0), Pos(m_size) - 1)

\* The state of a call in progress: the hash handle, the local result, and
\* once the call has returned early, the value returned and the call that
\* failed.
Returned(st, hash, failed) ==
  [st EXCEPT !.hash = hash, !.returned = TRUE,
             !.ret = HASH_SOURCE_CODE_ERROR, !.failed = failed]

\* int result = HASH_SOURCE_CODE_OK; and the scan unless the sloppiness
\* says not to.
scan_step_ignores_sloppiness ==
  BitOr(HASH_SOURCE_CODE_OK, check_for_temporal_macros.result)
scan_step ==
  IF ~sloppy
  THEN BitOr(HASH_SOURCE_CODE_OK, check_for_temporal_macros.result)
  ELSE HASH_SOURCE_CODE_OK

\* if (result & HASH_SOURCE_CODE_FOUND_DATE) { ... }
date_step_month_first(st, env) ==
  IF st.returned \/ ~HasBit(st.result, HASH_SOURCE_CODE_FOUND_DATE) THEN st
  ELSE LET h == hash_delimiter(st.hash, Str_date)
           tm == localtime_r(env.now)
       IN IF ~env.localtime_now_ok THEN Returned(st, h, "localtime(now)")
          ELSE [st EXCEPT !.hash = hash_int(hash_int(hash_int(h,
                                    tm.tm_mon), tm.tm_year), tm.tm_mday)]
date_step(st, env) ==
  IF st.returned \/ ~HasBit(st.result, HASH_SOURCE_CODE_FOUND_DATE) THEN st
  ELSE LET h == hash_delimiter(st.hash, Str_date)
           tm == localtime_r(env.now)
       IN IF ~env.localtime_now_ok THEN Returned(st, h, "localtime(now)")
          ELSE [st EXCEPT !.hash = hash_int(hash_int(hash_int(h,
                                    tm.tm_year), tm.tm_mon), tm.tm_mday)]

\* if (result & HASH_SOURCE_CODE_FOUND_TIME) { cc_log(...); }
time_step_hashes_time(st, env) ==
  IF st.returned \/ ~HasBit(st.result, HASH_SOURCE_CODE_FOUND_TIME) THEN st
  ELSE [st EXCEPT !.hash = hash_int(hash_delimiter(st.hash, Str_time),
                                    localtime_r(env.now).tm_year)]
time_step(st, env) == st

\* if (result & HASH_SOURCE_CODE_FOUND_TIMESTAMP) { ... }
timestamp_step_delimiter_last(st, env) ==
  IF st.returned \/ ~HasBit(st.result, HASH_SOURCE_CODE_FOUND_TIMESTAMP)
  THEN st
  ELSE IF ~env.stat_ok THEN Returned(st, st.hash, "stat")
  ELSE IF ~env.localtime_mtime_ok
    THEN Returned(st, st.hash, "localtime(mtime)")
  ELSE IF ~env.asctime_ok THEN Returned(st, st.hash, "asctime")
  ELSE [st EXCEPT !.hash = hash_string(hash_delimiter(st.hash, Str_timestamp),
                                       asctime(localtime_r(env.mtime)))]
timestamp_step(st, env) ==
  IF st.returned \/ ~HasBit(st.result, HASH_SOURCE_CODE_FOUND_TIMESTAMP)
  THEN st
  ELSE IF ~env.stat_ok THEN Returned(st, st.hash, "stat")
  ELSE LET h == hash_delimiter(st.hash, Str_timestamp)
       IN IF ~env.localtime_mtime_ok
          THEN Returned(st, h, "localtime(mtime)")
          ELSE IF ~env.asctime_ok THEN Returned(st, h, "asctime")
          ELSE [st EXCEPT !.hash = hash_string(h,
                                     asctime(localtime_r(env.mtime)))]

\* The start of hash_source_code_string(config, hash, buffer, path), on a
\* hash handle that has absorbed nothing yet: the scan, and the hashing of
\* the source string.
hash_source_string ==
  CHOOSE st \in
    { [hash |-> hash_string_buffer(<<>>, LiveBytes), result |-> r,
       returned |-> FALSE, ret |-> 0, failed |-> "none"] :
      r \in {scan_step} } : TRUE

\* The rest of hash_source_code_string, from the state st of the call on,
\* in the environment env: the three if statements and the return.
hash_source_code_string(st, env) ==
  LET dated == { date_step(st, env) }
      timed == { time_step(d, env) : d \in dated }
      stamped == { timestamp_step(t, env) : t \in timed }
  IN CHOOSE out \in { [done |-> TRUE, now |-> env.now, mtime |-> env.mtime,
                       failed |-> t.failed, hash |-> t.hash,
                       ret |-> IF t.returned THEN t.ret ELSE t.result] :
                      t \in stamped } : TRUE

NotRun == [done |-> FALSE, now |-> 0, mtime |-> 0, failed |-> "none",
           hash |-> <<>>, ret |-> 0]

\* Two calls are made on the same buffer and configuration.
RunIds == {1, 2}

\* The pieces of the hashed buffers: the macros, a space, and
\* "__DATE__ __TIME__ __TIMESTAMP__".
HashChunks ==
  { Macro_DATE, Macro_TIME, Macro_TIMESTAMP, <<32>>,
    Macro_DATE \o <<32>> \o Macro_TIME \o <<32>> \o Macro_TIMESTAMP }

RECURSIVE HashInputs(_)
HashInputs(n) ==
  IF n = 0 THEN { <<>> }
  ELSE LET prev == HashInputs(n - 1)
       IN prev \cup { s \o c : s \in prev, c \in HashChunks }

InitHash ==
  /\ have_avx2 \in BOOLEAN
  /\ cpu_avx2 = have_avx2
  /\ \E content \in HashInputs(MaxHashChunks) :
       /\ m_size = Len(content)
       /\ m_capacity = Len(content)
       /\ m_buffer = FilledBuffer(content)
       /\ last_op = [op |-> "set_size", arg |-> Len(content), old_size |-> 0]
  /\ res_bmh = NoCall /\ res_avx2 = NoCall /\ res_check = NoCall
  /\ sloppy \in BOOLEAN
  /\ runs = [r \in RunIds |-> NotRun]
  /\ cmd = NoCmd /\ multi = NoMulti

\* Call r of hash_source_code_string, the calls made one after the other.
HashSourceCodeString(r) ==
  /\ ~runs[r].done
  /\ \A q \in RunIds : q < r => runs[q].done
  /\ \E st \in {hash_source_string} : \E env \in Envs :
       runs' = [runs EXCEPT ![r] = hash_source_code_string(st, env)]
  /\ UNCHANGED <<bufVars, scanVars, sloppy, cmdVars>>

NextHash == \E r \in RunIds : HashSourceCodeString(r)

SpecHash == InitHash /\ [][NextHash]_vars

-----------------------------------------------------------------------------
(* hash_command_output: the calling process, the child and the pipe *)

\* The bytes a command writes: the first n of 'h' 'e' 'l' 'l' 'o' ...
Output(n) == [k \in 1..n |-> <<104, 101, 108, 108, 111>>[((k - 1) % 5) + 1]]

\* How the program ends once it has written its output: it exits with a
\* code, or a signal kills it (where there are signals).
Exits(platform) ==
  { [normal |-> TRUE, code |-> c] : c \in {0, 3} }
    \cup (IF platform = "posix" THEN { [normal |-> FALSE, code |-> 0] } ELSE {})

\* _exit(execvp(...)): execvp has returned -1, the exit code is 255.
ExecFailed == [normal |-> TRUE, code |-> 255]
\* Killed by SIGPIPE.
Sigpiped == [normal |-> FALSE, code |-> 0]

NoStatus == [normal |-> FALSE, code |-> 0]

\* The call before its first step. rd and wr are the calling process's two
\* ends of the pipe, child_wr says whether the child holds the write end.
CmdStart(platform) ==
  [platform |-> platform,
   pc |-> IF platform = "posix" THEN "pipe" ELSE "CreatePipe",
   rd |-> "none", wr |-> "none",
   child |-> "none", child_wr |-> FALSE,
   out |-> <<>>, exit |-> NoStatus, status |-> NoStatus,
   pipe |-> <<>>, written |-> <<>>, hash |-> <<>>,
   ok |-> FALSE, waited |-> "no", wstatus |-> NoStatus,
   create_failed |-> "none",
   returned |-> FALSE, ret |-> FALSE]

InitCmd ==
  /\ have_avx2 = FALSE /\ cpu_avx2 = FALSE
  /\ m_size = 0 /\ m_capacity = 0 /\ m_buffer = ctor(0, <<>>)
  /\ last_op = [op |-> "Buffer", arg |-> 0, old_size |-> 0]
  /\ res_bmh = NoCall /\ res_avx2 = NoCall /\ res_check = NoCall
  /\ sloppy = FALSE /\ runs = <<>>
  /\ \E platform \in {"posix", "win32"} : cmd = CmdStart(platform)
  /\ multi = NoMulti

CmdFrame == UNCHANGED <<bufVars, scanVars, hashVars, multi>>

\* if (pipe(pipefd) == -1) fatal("pipe failed");
PipeOk ==
  /\ cmd.pc = "pipe"
  /\ cmd' = [cmd EXCEPT !.pc = "fork", !.rd = "open", !.wr = "open"]
  /\ CmdFrame

PipeFails ==
  /\ cmd.pc = "pipe"
  /\ cmd' = [cmd EXCEPT !.pc = "fatal", !.create_failed = "pipe"]
  /\ CmdFrame

\* pid_t pid = fork(); the child starts with copies of both ends.
ForkOk ==
  /\ cmd.pc = "fork"
  /\ cmd' = [cmd EXCEPT !.pc = "close_write", !.child = "forked",
                        !.child_wr = TRUE]
  /\ CmdFrame

\* if (pid == -1) fatal("fork failed");
ForkFails ==
  /\ cmd.pc = "fork"
  /\ cmd' = [cmd EXCEPT !.pc = "fatal", !.create_failed = "process"]
  /\ CmdFrame

\* The child: close(pipefd[0]); close(0); dup2(pipefd[1], 1);
\* dup2(pipefd[1], 2); execvp succeeds and the program starts.
ChildExec ==
  /\ cmd.child = "forked"
  /\ \E n \in 0..MaxOut : \E e \in Exits(cmd.platform) :
       cmd' = [cmd EXCEPT !.child = "running", !.out = Output(n), !.exit = e]
  /\ CmdFrame

\* The child: execvp fails, _exit(execvp(...)).
ChildExecFails ==
  /\ cmd.child = "forked"
  /\ cmd' = [cmd EXCEPT !.child = "exited", !.child_wr = FALSE,
                        !.status = ExecFailed]
  /\ CmdFrame

\* As ChildWrite, with descriptor 2 not redirected: the byte does not go
\* into the pipe.
ChildWrite_stderr_not_redirected ==
  /\ cmd.child = "running"
  /\ cmd.out # <<>>
  /\ cmd.child_wr
  /\ cmd.rd = "open"
  /\ Len(cmd.pipe) < PipeCap
  /\ cmd' = [cmd EXCEPT !.out = Tail(cmd.out),
                        !.written = Append(cmd.written, Head(cmd.out))]
  /\ CmdFrame

\* The program writes its next byte to descriptor 1 or 2; the write blocks
\* while the pipe is full.
ChildWrite ==
  /\ cmd.child = "running"
  /\ cmd.out # <<>>
  /\ cmd.child_wr
  /\ cmd.rd = "open"
  /\ Len(cmd.pipe) < PipeCap
  /\ cmd' = [cmd EXCEPT !.out = Tail(cmd.out),
                        !.pipe = Append(cmd.pipe, Head(cmd.out)),
                        !.written = Append(cmd.written, Head(cmd.out))]
  /\ CmdFrame

\* The program writes to the pipe after its read end was closed: SIGPIPE.
ChildSigpipe ==
  /\ cmd.child = "running"
  /\ cmd.out # <<>>
  /\ cmd.child_wr
  /\ cmd.rd = "closed"
  /\ cmd' = [cmd EXCEPT !.child = "exited", !.child_wr = FALSE,
                        !.status = Sigpiped]
  /\ CmdFrame

\* The program writes to a descriptor that is no open handle: the write
\* fails and the program goes on.
ChildWriteFails ==
  /\ cmd.child = "running"
  /\ cmd.out # <<>>
  /\ ~cmd.child_wr
  /\ cmd' = [cmd EXCEPT !.out = Tail(cmd.out)]
  /\ CmdFrame

\* The program has written everything and ends.
ChildExit ==
  /\ cmd.child = "running"
  /\ cmd.out = <<>>
  /\ cmd' = [cmd EXCEPT !.child = "exited", !.child_wr = FALSE,
                        !.status = cmd.exit]
  /\ CmdFrame

\* Parent: args_free(args); close(pipefd[1]);
ParentCloseWrite ==
  /\ cmd.pc = "close_write"
  /\ cmd' = [cmd EXCEPT !.pc = "hash_fd", !.wr = "closed"]
  /\ CmdFrame

\* hash_fd(hash, fd), one read that returns n > 0 bytes, which are absorbed.
HashFdRead ==
  /\ cmd.pc = "hash_fd"
  /\ \E n \in 1..Len(cmd.pipe) :
       cmd' = [cmd EXCEPT !.hash = cmd.hash \o SubSeq(cmd.pipe, 1, n),
                          !.pipe = SubSeq(cmd.pipe, n + 1, Len(cmd.pipe))]
  /\ CmdFrame

\* Where the call goes on after hash_fd.
AfterHashFd(platform) ==
  IF platform = "posix" THEN "close_read" ELSE "WaitForSingleObject"

\* hash_fd: the read returns 0, the pipe is empty and no write end is open.
HashFdEof ==
  /\ cmd.pc = "hash_fd"
  /\ cmd.rd = "open"
  /\ cmd.pipe = <<>>
  /\ cmd.wr # "open" /\ ~cmd.child_wr
  /\ cmd' = [cmd EXCEPT !.ok = TRUE, !.pc = AfterHashFd(cmd.platform)]
  /\ CmdFrame

\* hash_fd: the read fails; hash_fd returns false.
HashFdError ==
  /\ cmd.pc = "hash_fd"
  /\ cmd' = [cmd EXCEPT !.ok = FALSE, !.pc = AfterHashFd(cmd.platform)]
  /\ CmdFrame

\* Parent: close(pipefd[0]); what was in the pipe is gone.
ParentCloseRead ==
  /\ cmd.pc = "close_read"
  /\ cmd' = [cmd EXCEPT !.pc = "waitpid", !.rd = "closed", !.pipe = <<>>]
  /\ CmdFrame

\* waitpid(pid, &status, 0) returns pid: the child has ended and is reaped.
WaitpidOk ==
  /\ cmd.pc = "waitpid"
  /\ cmd.child = "exited"
  /\ cmd' = [cmd EXCEPT !.pc = "check_status", !.child = "reaped",
                        !.waited = "ok", !.wstatus = cmd.status]
  /\ CmdFrame

\* waitpid returns something else (EINTR, ECHILD): return false.
WaitpidFails ==
  /\ cmd.pc = "waitpid"
  /\ cmd' = [cmd EXCEPT !.pc = "done", !.waited = "failed",
                        !.returned = TRUE, !.ret = FALSE]
  /\ CmdFrame

\* if (!WIFEXITED(status) || WEXITSTATUS(status) != 0) return false;
\* return ok;
status_result_ignores_status(ok, wstatus) == ok
status_result(ok, wstatus) ==
  IF ~wstatus.normal \/ wstatus.code # 0 THEN FALSE ELSE ok

CheckStatus ==
  /\ cmd.pc = "check_status"
  /\ cmd' = [cmd EXCEPT !.pc = "done", !.returned = TRUE,
                        !.ret = status_result(cmd.ok, cmd.wstatus)]
  /\ CmdFrame

\* CreatePipe(&pipe_out[0], &pipe_out[1], &sa, 0); SetHandleInformation
Win32CreatePipe ==
  /\ cmd.pc = "CreatePipe"
  /\ cmd' = [cmd EXCEPT !.pc = "CreateProcess", !.rd = "open", !.wr = "open"]
  /\ CmdFrame

\* CreatePipe fails; its result is not looked at. It has not set pipe_out,
\* whose two values are no open handles, and the call goes on.
Win32CreatePipeFails ==
  /\ cmd.pc = "CreatePipe"
  /\ cmd' = [cmd EXCEPT !.pc = "CreateProcess", !.rd = "invalid",
                        !.wr = "invalid", !.create_failed = "pipe"]
  /\ CmdFrame

\* CloseHandle(h): an open handle is closed, on any other value the call
\* fails and changes nothing.
CloseHandle(h) == IF h = "open" THEN "closed" ELSE h

\* CreateProcess succeeds: the program runs with the write end as its
\* stdout and stderr; CloseHandle(pipe_out[1]).
Win32CreateProcessOk ==
  /\ cmd.pc = "CreateProcess"
  /\ \E n \in 0..MaxOut : \E e \in Exits(cmd.platform) :
       cmd' = [cmd EXCEPT !.pc = "hash_fd", !.wr = CloseHandle(cmd.wr),
                          !.child = "running", !.child_wr = (cmd.wr = "open"),
                          !.out = Output(n), !.exit = e]
  /\ CmdFrame

\* CreateProcess fails: CloseHandle(pipe_out[1]); if (ret == 0) return false;
Win32CreateProcessFails ==
  /\ cmd.pc = "CreateProcess"
  /\ cmd' = [cmd EXCEPT !.pc = "done", !.wr = CloseHandle(cmd.wr),
                        !.create_failed = "process",
                        !.returned = TRUE, !.ret = FALSE]
  /\ CmdFrame

\* WaitForSingleObject(pi.hProcess, INFINITE) returns when the child ended.
Win32Wait ==
  /\ cmd.pc = "WaitForSingleObject"
  /\ cmd.child = "exited"
  /\ cmd' = [cmd EXCEPT !.pc = "GetExitCodeProcess", !.child = "reaped",
                        !.waited = "ok"]
  /\ CmdFrame

\* if (exitcode != 0) return false; return ok;
exitcode_result(ok, exitcode) == IF exitcode # 0 THEN FALSE ELSE ok

\* GetExitCodeProcess; CloseHandle(pipe_out[0]); CloseHandle(pi.hProcess);
\* CloseHandle(pi.hThread); and the return.
Win32ExitCode ==
  /\ cmd.pc = "GetExitCodeProcess"
  /\ cmd' = [cmd EXCEPT !.pc = "done", !.rd = CloseHandle(cmd.rd),
                        !.pipe = <<>>,
                        !.wstatus = cmd.status, !.returned = TRUE,
                        !.ret = exitcode_result(cmd.ok, cmd.status.code)]
  /\ CmdFrame

NextCmd ==
  \/ PipeOk \/ PipeFails \/ ForkOk \/ ForkFails
  \/ ChildExec \/ ChildExecFails \/ ChildWrite \/ ChildWriteFails
  \/ ChildSigpipe \/ ChildExit
  \/ ParentCloseWrite \/ HashFdRead \/ HashFdEof \/ HashFdError
  \/ ParentCloseRead \/ WaitpidOk \/ WaitpidFails \/ CheckStatus
  \/ Win32CreatePipe \/ Win32CreatePipeFails
  \/ Win32CreateProcessOk \/ Win32CreateProcessFails
  \/ Win32Wait \/ Win32ExitCode

SpecCmd == InitCmd /\ [][NextCmd]_vars

\* The steps of the calling process that are no failure of a system call.
ParentStep ==
  \/ PipeOk \/ ForkOk \/ ParentCloseWrite \/ HashFdRead \/ HashFdEof
  \/ ParentCloseRead \/ WaitpidOk \/ CheckStatus
  \/ Win32CreatePipe \/ Win32CreateProcessOk \/ Win32Wait \/ Win32ExitCode

\* The steps of the child process.
ChildStep ==
  \/ ChildExec \/ ChildWrite \/ ChildWriteFails \/ ChildSigpipe \/ ChildExit

\* Fair scheduling: a process that can take a step eventually takes one.
\* System calls may still fail, but none is bound to.
SpecCmdFair ==
  InitCmd /\ [][NextCmd]_vars /\ WF_vars(ParentStep) /\ WF_vars(ChildStep)

-----------------------------------------------------------------------------
(* hash_multicommand_output *)

CH_SEMICOLON == 59
CH_c == 99

\* The command lists: strings of ';' and 'c' (a byte of a command).
RECURSIVE Strings(_)
Strings(n) ==
  IF n = 0 THEN { <<>> }
  ELSE LET prev == Strings(n - 1)
       IN prev \cup { Append(str, ch) : str \in prev,
                                        ch \in {CH_SEMICOLON, CH_c} }

\* strtok_r: the string without its leading delimiters.
RECURSIVE SkipDelims(_)
SkipDelims(str) ==
  IF str # <<>> /\ Head(str) = CH_SEMICOLON THEN SkipDelims(Tail(str))
  ELSE str

\* strtok_r: the number of leading bytes that are no delimiter.
RECURSIVE TokenLen(_)
TokenLen(str) ==
  IF str # <<>> /\ Head(str) # CH_SEMICOLON THEN 1 + TokenLen(Tail(str))
  ELSE 0

\* strtok_r(p, ";", &saveptr), where str is what p (first call) or saveptr
\* (later calls) points to: the next token, if there is one, and the new
\* saveptr, which is past the delimiter that ended the token.
strtok_r_keeps_empty(str) ==
  LET n == TokenLen(str)
  IN IF str = <<>>
     THEN [found |-> FALSE, token |-> <<>>, saveptr |-> <<>>]
     ELSE [found |-> TRUE, token |-> SubSeq(str, 1, n),
           saveptr |-> SubSeq(str, n + 2, Len(str))]
strtok_r(str) ==
  LET tail == SkipDelims(str)
      n == TokenLen(tail)
  IN IF tail = <<>>
     THEN [found |-> FALSE, token |-> <<>>, saveptr |-> <<>>]
     ELSE [found |-> TRUE, token |-> SubSeq(tail, 1, n),
           saveptr |-> SubSeq(tail, n + 2, Len(tail))]

\* No call of hash_command_output is in progress.
CmdIdle(platform) == [CmdStart(platform) EXCEPT !.pc = "none"]

\* What a call of hash_command_output leaves of its child.
ChildLeft(child) ==
  CASE child = "none" -> "none"
    [] child = "reaped" -> "reaped"
    [] child = "exited" -> "zombie"
    [] OTHER -> "alive"

\* What the hash handle passed in has absorbed before the call: nothing,
\* or a byte 'x'.
HashesBefore == { <<>>, <<120>> }

\* char* command_string = x_strdup(commands); char* p = command_string;
\* char* saveptr = nullptr; bool ok = true;
InitMulti ==
  /\ have_avx2 = FALSE /\ cpu_avx2 = FALSE
  /\ m_size = 0 /\ m_capacity = 0 /\ m_buffer = ctor(0, <<>>)
  /\ last_op = [op |-> "Buffer", arg |-> 0, old_size |-> 0]
  /\ res_bmh = NoCall /\ res_avx2 = NoCall /\ res_check = NoCall
  /\ sloppy = FALSE /\ runs = <<>>
  /\ \E platform \in {"posix", "win32"} : \E commands \in Strings(MaxCmdLen) :
     \E hash \in HashesBefore :
       /\ cmd = [CmdIdle(platform) EXCEPT !.hash = hash]
       /\ multi = [pc |-> "strtok", platform |-> platform, hash |-> hash,
                   commands |-> commands, saveptr |-> commands,
                   command |-> <<>>, ok |-> TRUE, calls |-> <<>>,
                   children |-> <<>>, returned |-> FALSE, ret |-> FALSE]

MultiFrame == UNCHANGED <<bufVars, scanVars, hashVars>>

\* while ((command = strtok_r(p, ";", &saveptr))) with a token found, and
\* the call hash_command_output(hash, command, compiler) on the same hash.
MultiNextCommand ==
  /\ multi.pc = "strtok"
  /\ strtok_r(multi.saveptr).found
  /\ multi' = [multi EXCEPT !.pc = "call",
                            !.command = strtok_r(multi.saveptr).token,
                            !.saveptr = strtok_r(multi.saveptr).saveptr]
  /\ cmd' = [CmdStart(multi.platform) EXCEPT !.hash = cmd.hash]
  /\ MultiFrame

\* if (!hash_command_output(...)) { ok = false; }
ok_after_call_last_only(ok, ret) == ret
ok_after_call(ok, ret) == IF ~ret THEN FALSE ELSE ok

\* hash_command_output has returned: the if statement and p = nullptr.
MultiAfterCall ==
  /\ multi.pc = "call"
  /\ cmd.returned
  /\ multi' = [multi EXCEPT
       !.pc = "strtok",
       !.ok = ok_after_call(multi.ok, cmd.ret),
       !.calls = Append(multi.calls,
                        [command |-> multi.command, ret |-> cmd.ret,
                         waited |-> cmd.waited,
                         hash_len |-> Len(cmd.hash)]),
       !.children = Append(multi.children, ChildLeft(cmd.child))]
  /\ cmd' = [CmdIdle(multi.platform) EXCEPT !.hash = cmd.hash]
  /\ MultiFrame

\* strtok_r returns nullptr: free(command_string); return ok;
MultiReturn ==
  /\ multi.pc = "strtok"
  /\ ~strtok_r(multi.saveptr).found
  /\ multi' = [multi EXCEPT !.pc = "done", !.returned = TRUE,
                            !.ret = multi.ok]
  /\ UNCHANGED cmd
  /\ MultiFrame

\* A child that an earlier call left alive ends.
LeftChildEnds(k) ==
  /\ multi.children[k] = "alive"
  /\ multi' = [multi EXCEPT !.children[k] = "zombie"]
  /\ UNCHANGED cmd
  /\ MultiFrame

NextMulti ==
  \/ MultiNextCommand \/ MultiAfterCall \/ MultiReturn
  \/ \E k \in 1..Len(multi.children) : LeftChildEnds(k)
  \/ NextCmd

SpecMulti == InitMulti /\ [][NextMulti]_vars

-----------------------------------------------------------------------------
(* Properties *)

\* An identifier byte: '_', an ASCII letter or an ASCII digit.
Ident(c) ==
  \/ c = 95
  \/ 48 <= c /\ c <= 57
  \/ 65 <= c /\ c <= 90
  \/ 97 <= c /\ c <= 122

\* The byte at offset k of the live region, with the byte before offset 0
\* taken to be '\n' and the byte at offset size() to be NUL.
LiveOrSentinel(k) ==
  IF k = -1 THEN 10 ELSE IF k = m_size THEN 0 ELSE buffer(m_buffer, k)

\* The macro m lies in the live region at offset o.
MacroAt(m, o) ==
  /\ o >= 0 /\ o + Len(m) <= m_size
  /\ \A k \in 1..Len(m) : buffer(m_buffer, o + k - 1) = m[k]

\* The macro m occurs somewhere in the live region as a whole token.
WholeToken(m) ==
  \E o \in 0..(m_size - Len(m)) :
    /\ MacroAt(m, o)
    /\ ~Ident(LiveOrSentinel(o - 1))
    /\ ~Ident(LiveOrSentinel(o + Len(m)))

ReferenceMask ==
  (IF WholeToken(Macro_DATE) THEN HASH_SOURCE_CODE_FOUND_DATE ELSE 0)
  + (IF WholeToken(Macro_TIME) THEN HASH_SOURCE_CODE_FOUND_TIME ELSE 0)
  + (IF WholeToken(Macro_TIMESTAMP) THEN HASH_SOURCE_CODE_FOUND_TIMESTAMP ELSE 0)

\* C1: check_for_temporal_macros returns exactly the mask of the macros that
\* occur in the live region as whole tokens (the bytes before and after are
\* not identifier bytes, the sentinels counting as the bytes around the live
\* region); so a buffer shorter than 8 bytes gives 0 and a macro that ends
\* where the buffer ends is found.
C1_ScanIsWholeTokenMask ==
  res_check.called =>
    /\ res_check.result = ReferenceMask
    /\ m_size < 8 => res_check.result = 0
    /\ \A m \in {Macro_DATE, Macro_TIME, Macro_TIMESTAMP} :
         ( /\ MacroAt(m, m_size - Len(m))
           /\ ~Ident(LiveOrSentinel(m_size - Len(m) - 1)) )
         => res_check.result # 0

\* A scan by the vectorized path has found __TIMESTAMP__ and a __DATE__ that
\* ends where the buffer ends.
C1_Witness ==
  /\ res_check.called /\ have_avx2 /\ cpu_avx2
  /\ res_check.result = HASH_SOURCE_CODE_FOUND_DATE
                        + HASH_SOURCE_CODE_FOUND_TIMESTAMP
  /\ MacroAt(Macro_DATE, m_size - 8)

\* C2: on every buffer the scalar path and the vectorized path return the
\* same mask.
C2_ScalarEqualsVectorized ==
  (res_bmh.called /\ res_avx2.called) => res_bmh.result = res_avx2.result

\* Both paths have scanned a buffer of more than one 32-byte block and have
\* found a macro that starts in the second block.
C2_Witness ==
  /\ res_bmh.called /\ res_avx2.called
  /\ res_bmh.result = HASH_SOURCE_CODE_FOUND_TIME
  /\ \E o \in 32..m_size : MacroAt(Macro_TIME, o)

\* C3: after construction and after every set_size, set_capacity and reset,
\* buffer[-1] is '\n' and buffer[size()] is NUL; in a vectorized build all of
\* buffer[size()] .. buffer[size() + 30] are NUL. Right after construction
\* size() is 0 and capacity() is the capacity asked for.
C3_Sentinels ==
  /\ buffer(m_buffer, -1) = 10
  /\ buffer(m_buffer, m_size) = 0
  /\ have_avx2 => \A k \in 0..30 : buffer(m_buffer, m_size + k) = 0
  /\ last_op.op = "Buffer" => (m_size = 0 /\ m_capacity = last_op.arg)

\* A vectorized build's buffer has been resized with live bytes in it and
\* room left after them.
C3_Witness ==
  /\ have_avx2
  /\ last_op.op = "set_capacity"
  /\ m_size >= 1 /\ m_size < m_capacity

\* C4: every byte a scan reads lies inside the allocation and has been
\* written: the scalar path and the helper read offsets in -1 .. size() only,
\* and the two 32-byte loads of the vectorized path read offsets in
\* 0 .. size() + 30 only.
C4_ReadsInsideAllocation ==
  \A r \in {res_bmh, res_avx2, res_check} :
    r.called =>
      /\ \A k \in r.reads : k \in (-1)..m_size /\ buffer(m_buffer, k) # NoByte
      /\ \A k \in r.loads :
           k \in 0..(m_size + 30) /\ buffer(m_buffer, k) # NoByte

\* The vectorized path has scanned a buffer whose last block starts 8 bytes
\* before the end, so its second load has read 28 bytes of the tail; the
\* scalar path has read the tail sentinel.
C4_Witness ==
  /\ res_avx2.called /\ res_bmh.called
  /\ m_size + 28 \in res_avx2.loads
  /\ m_size \in res_bmh.reads
  /\ -1 \in res_bmh.reads

\* The buffer is prefix + m + suffix, prefix and suffix not empty and made
\* of identifier bytes.
InsideIdentifier(m) ==
  \E o \in 1..(m_size - Len(m) - 1) :
    /\ MacroAt(m, o)
    /\ \A k \in 0..(o - 1) : Ident(buffer(m_buffer, k))
    /\ \A k \in (o + Len(m))..(m_size - 1) : Ident(buffer(m_buffer, k))

\* The buffer is a + m + b for two bytes a and b that are not identifier
\* bytes.
BetweenNonIdentifiers(m) ==
  /\ m_size = Len(m) + 2
  /\ MacroAt(m, 1)
  /\ ~Ident(buffer(m_buffer, 0))
  /\ ~Ident(buffer(m_buffer, m_size - 1))

MacroBit(m) ==
  IF m = Macro_DATE THEN HASH_SOURCE_CODE_FOUND_DATE
  ELSE IF m = Macro_TIME THEN HASH_SOURCE_CODE_FOUND_TIME
  ELSE HASH_SOURCE_CODE_FOUND_TIMESTAMP

\* C5: a macro with identifier bytes on both sides (prefix + M + suffix) is
\* not found, the scan gives 0; a macro between two bytes that are not
\* identifier bytes gives exactly the macro's bit.
C5_TokenBoundary ==
  \A r \in {res_bmh, res_avx2, res_check} :
    r.called =>
      \A m \in {Macro_DATE, Macro_TIME, Macro_TIMESTAMP} :
        /\ InsideIdentifier(m) => r.result = 0
        /\ BetweenNonIdentifiers(m) => r.result = MacroBit(m)

\* "9__TIMESTAMP__a" has been scanned, and nothing was found.
C5_Witness ==
  /\ res_check.called
  /\ InsideIdentifier(Macro_TIMESTAMP)
  /\ buffer(m_buffer, 0) = 57
  /\ buffer(m_buffer, m_size - 1) = 97
  /\ res_check.result = 0

\* A call of hash_source_code_string that has returned.
DoneRuns == { r \in RunIds : runs[r].done }

BufferItem == [op |-> "string_buffer", data |-> LiveBytes]
DateDelimiter == [op |-> "delimiter", data |-> <<100, 97, 116, 101>>]
TimestampDelimiter ==
  [op |-> "delimiter", data |-> <<116, 105, 109, 101, 115, 116, 97, 109, 112>>]
IntItem(x) == [op |-> "int", data |-> <<x>>]

Absorbed(r, item) == \E k \in 1..Len(runs[r].hash) : runs[r].hash[k] = item

\* tm_year, tm_mon, tm_mday of the two times of the model.
DateInts(t) ==
  IF t = 0 THEN <<IntItem(70), IntItem(0), IntItem(1)>>
  ELSE <<IntItem(100), IntItem(1), IntItem(29)>>

\* "Thu Jan  1 00:00:00 1970\n" and "Tue Feb 29 00:00:00 2000\n"
TimestampItem(t) ==
  [op |-> "string",
   data |-> IF t = 0
            THEN <<84, 104, 117, 32, 74, 97, 110, 32, 32, 49, 32, 48, 48, 58,
                   48, 48, 58, 48, 48, 32, 49, 57, 55, 48, 10>>
            ELSE <<84, 117, 101, 32, 70, 101, 98, 32, 50, 57, 32, 48, 48, 58,
                   48, 48, 58, 48, 48, 32, 50, 48, 48, 48, 10>>]

\* What a call absorbs for __DATE__ when nothing fails.
DatePart(found, now) ==
  IF HasBit(found, HASH_SOURCE_CODE_FOUND_DATE)
  THEN <<DateDelimiter>> \o DateInts(now) ELSE <<>>

\* What a call absorbs for __TIMESTAMP__ when nothing fails.
TimestampPart(found, mtime) ==
  IF HasBit(found, HASH_SOURCE_CODE_FOUND_TIMESTAMP)
  THEN <<TimestampDelimiter, TimestampItem(mtime)>> ELSE <<>>

\* C6: with SLOPPY_TIME_MACROS set, hash_source_code_string returns the mask
\* 0 and absorbs the buffer bytes and nothing else, whatever the buffer holds.
C6_SloppyAbsorbsBufferOnly ==
  sloppy =>
    \A r \in DoneRuns :
      /\ runs[r].ret = 0
      /\ runs[r].hash = <<BufferItem>>

\* A call with the sloppiness set has returned for a buffer that holds all
\* three macros as whole tokens.
C6_Witness ==
  /\ sloppy
  /\ runs[1].done
  /\ ReferenceMask = HASH_SOURCE_CODE_FOUND_DATE + HASH_SOURCE_CODE_FOUND_TIME
                     + HASH_SOURCE_CODE_FOUND_TIMESTAMP

\* C7: a call that does not return ERROR has absorbed exactly: the live
\* buffer as one slice; then, if FOUND_DATE is in the result, "date", year,
\* month, day of the month; then, if FOUND_TIMESTAMP is in the result,
\* "timestamp" and the formatted mtime.
C7_AbsorptionSequence ==
  \A r \in DoneRuns :
    runs[r].ret # HASH_SOURCE_CODE_ERROR =>
      runs[r].hash = <<BufferItem>> \o DatePart(runs[r].ret, runs[r].now)
                       \o TimestampPart(runs[r].ret, runs[r].mtime)

\* A call has returned with both FOUND_DATE and FOUND_TIMESTAMP, the clock
\* at 2000-02-29 and the file's mtime at 1970-01-01.
C7_Witness ==
  /\ runs[1].done
  /\ HasBit(runs[1].ret, HASH_SOURCE_CODE_FOUND_DATE)
  /\ HasBit(runs[1].ret, HASH_SOURCE_CODE_FOUND_TIMESTAMP)
  /\ runs[1].now # 0 /\ runs[1].mtime = 0
  /\ Len(runs[1].hash) = 7

\* C8, as claimed: a failing call returns ERROR and has absorbed nothing for
\* the failing macro: "date" is in the hash only if the local-time conversion
\* for __DATE__ succeeded, "timestamp" only if stat and the local-time
\* conversion for __TIMESTAMP__ succeeded.
C8_NothingAbsorbedForFailingMacro ==
  \A r \in DoneRuns :
    /\ runs[r].failed # "none" => runs[r].ret = HASH_SOURCE_CODE_ERROR
    /\ Absorbed(r, DateDelimiter) => runs[r].failed # "localtime(now)"
    /\ Absorbed(r, TimestampDelimiter) =>
         runs[r].failed \notin {"stat", "localtime(mtime)"}

\* C8, amended: a failing call returns ERROR and absorbs nothing after the
\* call that failed. The delimiter is absorbed before the local-time
\* conversion, so a failing conversion leaves the hash ending with the
\* macro's delimiter, without the integers or the timestamp string; a
\* failing stat leaves nothing absorbed for __TIMESTAMP__.
C8_ErrorStopsHashing ==
  \A r \in DoneRuns :
    LET found == IF sloppy THEN 0 ELSE ReferenceMask
        date == DatePart(found, runs[r].now)
    IN /\ runs[r].failed # "none" <=> runs[r].ret = HASH_SOURCE_CODE_ERROR
       /\ runs[r].failed = "localtime(now)" =>
            runs[r].hash = <<BufferItem, DateDelimiter>>
       /\ runs[r].failed = "stat" => runs[r].hash = <<BufferItem>> \o date
       /\ runs[r].failed \in {"localtime(mtime)", "asctime"} =>
            runs[r].hash = <<BufferItem>> \o date \o <<TimestampDelimiter>>

\* One call has failed in the local-time conversion for __DATE__ and another
\* in the one for __TIMESTAMP__ after absorbing the date.
C8_Witness ==
  /\ runs[1].done /\ runs[2].done
  /\ runs[1].failed = "localtime(now)"
  /\ runs[2].failed = "localtime(mtime)"
  /\ Len(runs[2].hash) = 6

\* C9: when __TIME__ is the only macro in the buffer and the sloppiness is
\* not set, every call returns FOUND_TIME, and two calls that differ in the
\* wall-clock time and in the file's mtime absorb the same sequence.
C9_TimeAbsorbsNoEntropy ==
  (~sloppy /\ ReferenceMask = HASH_SOURCE_CODE_FOUND_TIME) =>
    /\ \A r \in DoneRuns : HasBit(runs[r].ret, HASH_SOURCE_CODE_FOUND_TIME)
    /\ \A r1, r2 \in DoneRuns : runs[r1].hash = runs[r2].hash

\* Two calls on a buffer with __TIME__ alone have returned, made at different
\* wall-clock times with different mtimes of the file.
C9_Witness ==
  /\ ~sloppy /\ ReferenceMask = HASH_SOURCE_CODE_FOUND_TIME
  /\ runs[1].done /\ runs[2].done
  /\ runs[1].now # runs[2].now
  /\ runs[1].mtime # runs[2].mtime

\* hash_command_output has returned after it created a child process.
ReturnedWithChild == cmd.returned /\ cmd.child # "none"

\* The child has ended by exiting with code 0.
ChildExitedZero ==
  /\ cmd.child \in {"exited", "reaped"}
  /\ cmd.status.normal /\ cmd.status.code = 0

CallOver == cmd.returned \/ cmd.pc = "fatal"

\* C11, as claimed: under fair scheduling hash_command_output eventually
\* returns, whatever the child writes before it exits and whether or not a
\* read fails, on the fork path and on the _WIN32 path.
C11_EventuallyReturns == <>CallOver

\* C11 on the fork path alone: there the read end is closed before the wait,
\* so the call is eventually over.
C11_ForkPathEventuallyReturns == (cmd.platform = "posix") => <>CallOver

\* The fork path has returned after a read error that left the child with
\* more to write than the pipe holds.
C11_Witness ==
  /\ cmd.platform = "posix" /\ cmd.returned
  /\ cmd.waited = "ok" /\ ~cmd.ok
  /\ cmd.status = Sigpiped
  /\ cmd.hash = <<>>

\* C12, as claimed: whenever hash_command_output returns after it created a
\* child, the child has terminated and a successful wait has reaped it.
C12_ReturnedChildReaped ==
  ReturnedWithChild => (cmd.child = "reaped" /\ cmd.waited = "ok")

\* C12 on the paths where the wait does not fail: the child has been reaped
\* at every return, also after a read error.
C12_ReapedUnlessWaitFailed ==
  (ReturnedWithChild /\ cmd.waited # "failed") =>
    (cmd.child = "reaped" /\ cmd.waited = "ok")

\* The call has returned after a read error and has reaped its child.
C12_Witness ==
  /\ ReturnedWithChild /\ ~cmd.ok /\ ~cmd.ret
  /\ cmd.child = "reaped"

\* The calling process holds neither end of a pipe open.
PipeEndsClosed == cmd.rd # "open" /\ cmd.wr # "open"

\* C13, as claimed: on every path by which hash_command_output returns, on
\* both platforms, both ends of the pipe are closed in the calling process.
C13_PipeClosedAtReturn == cmd.returned => PipeEndsClosed

\* C13 where a child was created: at every return after that, on both
\* platforms, both ends of the pipe are closed in the calling process.
C13_PipeClosedAtReturnWithChild == ReturnedWithChild => PipeEndsClosed

\* The call has returned false after a read error, with both ends closed.
C13_Witness ==
  /\ ReturnedWithChild /\ ~cmd.ok /\ ~cmd.ret
  /\ cmd.rd = "closed" /\ cmd.wr = "closed"

\* C14: when hash_command_output returns true, the child has written all of
\* its output, and the bytes absorbed into the hash are exactly the bytes
\* the child wrote, in the order it wrote them into the pipe.
C14_AbsorbedIsWhatChildWrote ==
  (cmd.returned /\ cmd.ret) =>
    /\ cmd.out = <<>>
    /\ cmd.hash = cmd.written

\* The call has returned true for a child that wrote 'h' 'e' 'l', more than
\* the pipe holds, and the hash has absorbed these bytes.
C14_Witness ==
  /\ cmd.returned /\ cmd.ret
  /\ cmd.hash = <<104, 101, 108>>
  /\ cmd.written = cmd.hash

\* The number of non-empty ';'-separated segments of a command list: the
\* positions where a byte that is no ';' starts the list or follows a ';'.
NonEmptySegments(str) ==
  Cardinality({ i \in 1..Len(str) :
                  /\ str[i] # CH_SEMICOLON
                  /\ (i = 1 \/ str[i - 1] = CH_SEMICOLON) })

\* C15: when hash_multicommand_output returns, it has run the command
\* runner once for every non-empty ';'-separated segment, also for those
\* after a failed one, and it returns true if and only if every one of
\* those runs returned true.
C15_EverySegmentRunAndAllTrue ==
  multi.returned =>
    /\ Len(multi.calls) = NonEmptySegments(multi.commands)
    /\ multi.ret <=> (\A i \in 1..Len(multi.calls) : multi.calls[i].ret)

\* The list "c;c" has been run: the first command failed, the second one
\* was run all the same and returned true, and false is returned.
C15_Witness ==
  /\ multi.returned /\ ~multi.ret
  /\ multi.commands = <<CH_c, CH_SEMICOLON, CH_c>>
  /\ Len(multi.calls) = 2
  /\ ~multi.calls[1].ret /\ multi.calls[2].ret

\* The call has aborted: fatal() does not return.
Aborted == cmd.pc = "fatal"

\* Creating the pipe or the child process has failed.
CreationFailed == cmd.create_failed # "none"

\* Nothing was hashed and nothing was waited for.
NoHashingNoWaiting == cmd.hash = <<>> /\ cmd.waited = "no"

\* The child could not exec, or exited with a non-zero code, or a read of
\* the pipe failed.
ChildOrReadFailed ==
  \/ cmd.child \in {"exited", "reaped"} /\ cmd.status.normal
       /\ cmd.status.code # 0
  \/ cmd.pc \notin {"pipe", "fork", "close_write", "hash_fd", "CreatePipe",
                    "CreateProcess", "fatal"}
       /\ ~cmd.ok

\* What holds of the failures that are not fatal: the call does not abort
\* on them, and when it returns it returns false.
FailureReturnsFalse ==
  /\ (Aborted => cmd.child = "none")
  /\ ((cmd.returned /\ ChildOrReadFailed) => ~cmd.ret)

\* C16, as claimed: on both paths a failure to create the pipe or the child
\* process aborts the call, which then returns neither true nor false and
\* hashes and waits for nothing; exec failure, a non-zero exit code and a
\* read error make the call return false without aborting.
C16_CreationFailureIsFatal ==
  /\ (CreationFailed => (Aborted /\ ~cmd.returned /\ NoHashingNoWaiting))
  /\ FailureReturnsFalse

\* C16 on the fork path alone, where the claim holds.
C16_ForkPathCreationFailureIsFatal ==
  (cmd.platform = "posix") =>
    /\ (CreationFailed => (Aborted /\ ~cmd.returned /\ NoHashingNoWaiting))
    /\ FailureReturnsFalse

\* The fork path has aborted because fork failed.
C16_Witness ==
  /\ cmd.platform = "posix" /\ Aborted
  /\ cmd.create_failed = "process"
  /\ cmd.rd = "open"

\* The children created so far by hash_multicommand_output that are alive.
AliveChildren ==
  { k \in 1..Len(multi.children) : multi.children[k] = "alive" }
    \cup (IF cmd.child \in {"forked", "running"}
          THEN { Len(multi.children) + 1 } ELSE {})

\* The children of the earlier segments have been waited for.
EarlierChildrenWaitedFor ==
  \A k \in 1..Len(multi.children) : multi.children[k] \in {"reaped", "none"}

\* The hash absorbs by appending, and the absorption of a segment ends where
\* the next one's begins: a byte of segment k is absorbed before any byte
\* of segment k + 1.
AbsorbedInSegmentOrder ==
  /\ Len(cmd.hash') >= Len(cmd.hash)
  /\ SubSeq(cmd.hash', 1, Len(cmd.hash)) = cmd.hash
  /\ \A k \in 1..Len(multi.calls') :
       multi.calls'[k].hash_len <=
         (IF k < Len(multi.calls') THEN multi.calls'[k + 1].hash_len
          ELSE Len(cmd.hash'))

\* C20, as claimed: the segments run strictly one after another: at most
\* one child is alive at any moment, the child of a segment has been waited
\* for before the next one is created, and every byte of a segment is
\* absorbed before any byte of the next one.
C20_OneSegmentAtATime ==
  [][ /\ Cardinality(AliveChildren') <= 1
      /\ (cmd'.child # "none" => EarlierChildrenWaitedFor')
      /\ AbsorbedInSegmentOrder ]_vars

\* C20 but for the calls whose waitpid failed: every other call has waited
\* for its child before the next one is created, and the bytes are absorbed
\* in the order of the segments.
C20_OneSegmentAtATimeUnlessWaitFailed ==
  [][ /\ \A k \in 1..Len(multi.children') :
           multi.calls'[k].waited # "failed" =>
             multi.children'[k] \in {"reaped", "none"}
      /\ AbsorbedInSegmentOrder ]_vars

\* Two commands have run on the fork path, each has absorbed a byte, and the
\* first child was reaped before the second one was created.
C20_Witness ==
  /\ multi.returned /\ multi.platform = "posix"
  /\ Len(multi.calls) = 2
  /\ multi.children = <<"reaped", "reaped">>
  /\ Len(multi.hash) < multi.calls[1].hash_len
  /\ multi.calls[1].hash_len < multi.calls[2].hash_len

\* C17: 0 <= size() <= capacity() always holds when set_size is called
\* within the capacity; set_capacity(c) leaves capacity() == c and size()
\* == min(old size, c); reset() leaves size() == capacity() == 0.
C17_SizeWithinCapacity ==
  /\ 0 <= m_size /\ m_size <= m_capacity
  /\ last_op.op = "set_capacity" =>
       /\ m_capacity = last_op.arg
       /\ m_size = Min(last_op.old_size, last_op.arg)
  /\ last_op.op = "reset" => (m_size = 0 /\ m_capacity = 0)

\* set_capacity has shrunk the capacity below the size, and the size was
\* clamped.
C17_Witness ==
  /\ last_op.op = "set_capacity"
  /\ last_op.old_size > last_op.arg
  /\ last_op.arg >= 1
  /\ m_size = last_op.arg

\* The bytes at the indices lo .. hi - 1 are the same before and after.
SameBytes(lo, hi) ==
  \A k \in lo..(hi - 1) : buffer(m_buffer', k) = buffer(m_buffer, k)

\* C18: set_capacity(c) leaves the live bytes at the indices in
\* [0, min(size(), c)) unchanged, and set_size(s) leaves the bytes at the
\* indices in [0, s) and the capacity unchanged.
C18_LiveBytesKept ==
  [][ /\ last_op'.op = "set_capacity" =>
           SameBytes(0, Min(m_size, last_op'.arg))
      /\ last_op'.op = "set_size" =>
           (SameBytes(0, last_op'.arg) /\ m_capacity' = m_capacity) ]_vars

\* Bytes 42 were written into a buffer, set_size(capacity()) made them live
\* and a set_capacity has then changed the capacity: they are still there.
C18_Witness ==
  /\ last_op.op = "set_capacity"
  /\ last_op.old_size >= 2 /\ m_size >= 2
  /\ m_capacity # last_op.old_size
  /\ buffer(m_buffer, 0) = 42 /\ buffer(m_buffer, 1) = 42

\* The step is a call set_size(size()).
IsSetSizeOfSize == last_op'.op = "set_size" /\ last_op'.arg = m_size

\* C19, as claimed: set_size(size()) changes nothing: not the size, not the
\* capacity and no byte of the buffer, the bytes at indices >= size()
\* included, in every state reached by construction, set_size,
\* set_capacity, reset and the caller's writes into [0, capacity()).
C19_SetSizeOfSizeIsNoOp ==
  [][ IsSetSizeOfSize =>
        (m_size' = m_size /\ m_capacity' = m_capacity
           /\ m_buffer' = m_buffer) ]_vars

\* The tail-sized run of bytes from index size() on is 0, as every Buffer
\* operation leaves it.
TailIsZero ==
  \A k \in 0..(k_buffer_tail_size - 1) :
    buffer(m_buffer, m_size + k) \in {CH_NUL, NoByte}

\* C19, amended: set_size(size()) leaves the size, the capacity, the head
\* byte and the bytes at indices < size() unchanged and sets the
\* k_buffer_tail_size bytes from index size() on to 0; it changes nothing at
\* all when these bytes are 0 already, that is unless the caller has written
\* a non-zero byte at an index >= size() since the last Buffer operation.
C19_SetSizeOfSizeRezeroesTail ==
  [][ IsSetSizeOfSize =>
        /\ m_size' = m_size /\ m_capacity' = m_capacity
        /\ SameBytes(0 - 1, m_size)
        /\ \A k \in 0..(k_buffer_tail_size - 1) :
             buffer(m_buffer', m_size + k) \in {CH_NUL, NoByte}
        /\ SameBytes(m_size + k_buffer_tail_size, MaxCap + 40)
        /\ (TailIsZero => m_buffer' = m_buffer) ]_vars

\* set_size(size()) has run on a buffer that holds a live byte 42 and whose
\* capacity is larger than its size.
C19_Witness ==
  /\ last_op.op = "set_size"
  /\ last_op.arg = last_op.old_size /\ m_size = last_op.arg
  /\ m_size >= 1 /\ m_size < m_capacity
  /\ buffer(m_buffer, 0) = 42

\* A call of the command runner has begun, or a process was created.
RunnerInvoked ==
  \/ multi.calls # <<>> \/ multi.children # <<>>
  \/ cmd.pc # "none" \/ cmd.child # "none"

\* C21: empty segments of the command list are skipped: the command runner
\* is invoked once for each non-empty ';'-separated segment, with that
\* segment, and when the list has no non-empty segment
\* hash_multicommand_output returns true, creates no process and leaves the
\* hash as it was.
C21_EmptySegmentsSkipped ==
  /\ \A i \in 1..Len(multi.calls) :
       /\ multi.calls[i].command # <<>>
       /\ \A k \in 1..Len(multi.calls[i].command) :
            multi.calls[i].command[k] # CH_SEMICOLON
  /\ multi.returned =>
       Len(multi.calls) = NonEmptySegments(multi.commands)
  /\ NonEmptySegments(multi.commands) = 0 =>
       /\ ~RunnerInvoked
       /\ cmd.hash = multi.hash
       /\ multi.returned => multi.ret

\* The list ";c;" has been run: the runner was invoked once, with "c".
C21_Witness ==
  /\ multi.returned
  /\ multi.commands = <<CH_SEMICOLON, CH_c, CH_SEMICOLON>>
  /\ Len(multi.calls) = 1
  /\ multi.calls[1].command = <<CH_c>>

\* The calls of check_for_temporal_macros_helper made by the scans run.
HelperCalls == res_bmh.calls \cup res_avx2.calls \cup res_check.calls

\* C22: at every call check_for_temporal_macros_helper(str, len) made by
\* the scalar and by the vectorized path, str[-1] is '_', str and str - 1
\* are in the live region, so that str[-2] is at an index >= -1, and len is
\* size() minus the offset of str, with no unsigned wrap-around, so that
\* str[len] is the byte at index size().
C22_HelperPrecondition ==
  \A call \in HelperCalls :
    /\ start(call.str - 1) = CH_UNDERSCORE
    /\ 1 <= call.str /\ call.str < m_size
    /\ call.str - 2 >= 0 - 1
    /\ call.len = m_size - call.str
    /\ call.str + call.len = m_size

\* Both paths have scanned a buffer and called the helper, the scalar path
\* at the very start of the buffer and the vectorized path in its second
\* 32-byte block.
C22_Witness ==
  /\ res_bmh.called /\ res_avx2.called
  /\ \E call \in res_bmh.calls : call.str = 1
  /\ \E call \in res_avx2.calls : call.str > 32

====
